---- MODULE Spec2Model ----
(***************************************************************************)
(* A model of the MozaikLite component interfaces                          *)
(* (framework/interfaces.py: VisualStimulus, MozaikLiteParametrizeObject)  *)
(* and of the analysis data structures                                     *)
(* (mozaik/analysis/analysis_data_structures.py).                          *)
(*                                                                         *)
(* The module holds one specification per functional cluster:              *)
(*   SpecStim    the frame stream of a VisualStimulus                      *)
(*   SpecParams  the parameter check of a MozaikLiteParametrizeObject      *)
(*   SpecOverride  the same, for classes that declare a key more than once *)
(*   SpecTC      TuningCurve and CyclicTuningCurve                         *)
(*   SpecADS     the constructors of the analysis data structures          *)
(***************************************************************************)
EXTENDS Integers, Sequences, FiniteSets, TLC

VARIABLES
    \* ---- VisualStimulus ----
    frameSeq,       \* what the subclass's frames() yields, in order
    infinite,       \* TRUE: frames() repeats frameSeq for ever (never exhausts)
    max_luminance,  \* self.max_luminance
    phase,          \* "new" (before __init__), "live", "failed" (__init__ raised)
    gen,            \* self._frames: the number of elements already taken from it
    hasImg,         \* whether self.img / self.variables have been assigned
    img,            \* self.img
    variables,      \* self.variables
    visible,        \* self.visible
    wasVisible,     \* self.visible as the last call found it
    raised,         \* the exception the last call ended with, or "none"
    ret,            \* what the last next_frame() that returned gave back
    lastOp,         \* the last method called on the stimulus
    calls,          \* update()/next_frame() calls since __init__ or reset()
    \* ---- MozaikLiteParametrizeObject ----
    classChain,     \* the classes of self.__class__.__mro__ before the base class
    cpPhase,        \* "new" (before __init__), "live", "failed" (__init__ raised)
    selfParameters, \* self.parameters, once __init__ has stored it
    parameters,     \* the argument of the last __init__/check_parameters call
    cpResult,       \* how that call ended: the exception and its section
    \* ---- TuningCurve / CyclicTuningCurve ----
    values,         \* self.values: one row of per-neuron values per stimulus
    stimuli_ids,    \* self.stimuli_ids: the stimulus id strings
    parameter_index,\* self.parameter_index (0-based)
    tcPhase,        \* "new" (before __init__), "live", "failed" (__init__ raised)
    identifier,     \* self.identifier
    period,         \* self.period of a CyclicTuningCurve (0: no such attribute)
    d,              \* self.d, the dictionary of the last conversion
    tcRaised,       \* the exception the last call ended with, or "none"
    tcOp,           \* the last call on the tuning curve
    \* ---- the analysis data structures and their tags ----
    adsCall,        \* the last constructor call: class, tags and keywords given
    ads,            \* the parameters (param values) of the object it built
    adsRaised       \* the exception that call ended with, or "none"

stimVars == <<frameSeq, infinite, max_luminance, phase, gen, hasImg, img,
              variables, visible, wasVisible, raised, ret, lastOp, calls>>

cpVars == <<classChain, cpPhase, selfParameters, parameters, cpResult>>

tcVars == <<values, stimuli_ids, parameter_index, tcPhase, identifier, period,
            d, tcRaised, tcOp>>

adsVars == <<adsCall, ads, adsRaised>>

vars == <<stimVars, cpVars, tcVars, adsVars>>

(***************************************************************************)
(* Bounds of the model.                                                    *)
(***************************************************************************)
MaxFrames == 3      \* longest frames() sequence (or period of an infinite one)
MaxCalls == 4       \* update()/next_frame() calls allowed between two resets
MaxDeclared == 4    \* classes before the base class plus the keys they declare
MaxSupplied == 3    \* keys (at all levels) of a supplied parameter tree
MaxOverride == 5    \* the same, for class chains that declare a key twice
MaxStimuli == 3     \* longest values / stimuli_ids list of a tuning curve
MaxTags == 2        \* longest list of tags given to a constructor

(***************************************************************************)
(* Each specification runs one cluster; the state of the others is absent. *)
(***************************************************************************)
StimIdle ==
    /\ frameSeq = <<>> /\ infinite = FALSE /\ max_luminance = 0
    /\ phase = "absent" /\ gen = 0 /\ hasImg = FALSE /\ img = <<>>
    /\ variables = <<>> /\ visible = FALSE /\ wasVisible = FALSE
    /\ raised = "none" /\ ret = <<>> /\ lastOp = "none" /\ calls = 0

CpIdle ==
    /\ classChain = <<>> /\ cpPhase = "absent" /\ selfParameters = <<>>
    /\ parameters = <<>> /\ cpResult = <<>>

TcIdle ==
    /\ values = <<>> /\ stimuli_ids = <<>> /\ parameter_index = 0
    /\ tcPhase = "absent" /\ identifier = "" /\ period = 0 /\ d = <<>>
    /\ tcRaised = "none" /\ tcOp = "none"

NoCall == [cls |-> "none", tagsGiven |-> FALSE, tags |-> <<>>, params |-> <<>>]
NoObject == [params |-> <<>>, attrs |-> <<>>]

AdsIdle == adsCall = NoCall /\ ads = NoObject /\ adsRaised = "none"

(***************************************************************************)
(* VisualStimulus                                                          *)
(***************************************************************************)
\* space.TRANSPARENT (imported at line 9), the pixel value that marks a
\* transparent pixel: a negative number.
TRANSPARENT == -1

\* An image is a non-empty array of pixel values (numpy array, flattened).
RECURSIVE ArrayMin(_)
ArrayMin(a) ==
    IF Len(a) = 1 THEN a[1]
    ELSE LET m == ArrayMin(Tail(a)) IN IF a[1] < m THEN a[1] ELSE m

RECURSIVE ArrayMax(_)
ArrayMax(a) ==
    IF Len(a) = 1 THEN a[1]
    ELSE LET m == ArrayMax(Tail(a)) IN IF a[1] > m THEN a[1] ELSE m

\* The frames, (img, variables) tuples, a frames() implementation of the model
\* may yield: in range, with transparent pixels, below zero, above every
\* luminance.  variables holds e.g. the orientation of the frame.
Frames == { << <<0, 1>>, <<0>> >>, << <<0, 1>>, <<1>> >>, << <<1, 0>>, <<1>> >>,
            << <<TRANSPARENT, 1>>, <<0>> >>, << <<-2, 1>>, <<0>> >>,
            << <<0, 3>>, <<1>> >>, << <<2, 2>>, <<0>> >> }

Luminances == {1, 2}

RECURSIVE SeqsUpTo(_, _)
SeqsUpTo(S, n) ==
    IF n = 0 THEN { <<>> }
    ELSE LET shorter == SeqsUpTo(S, n - 1)
         IN  shorter \cup { Append(s, x) : s \in { t \in shorter : Len(t) = n - 1 }, x \in S }

\* The two assertions of update() (lines 57-58).
MinOk(im) == ArrayMin(im) >= 0 \/ ArrayMin(im) = TRANSPARENT
MaxOk(im, maxlum) == ArrayMax(im) <= maxlum
InRange(im, maxlum) == MinOk(im) /\ MaxOk(im, maxlum)

\* self._frames.next(): whether the generator has a further element, and which.
HasNext(g) == infinite \/ g < Len(frameSeq)
FrameAt(i) == frameSeq[((i - 1) % Len(frameSeq)) + 1]

\* The exception update() ends with when the generator stands at g.
UpdateExc(g) ==
    IF HasNext(g) /\ ~InRange(FrameAt(g + 1)[1], max_luminance)
    THEN "AssertionError" ELSE "none"

\* update() with a slip: the frame is read but the generator is not advanced.
updatePeeks(g, vis) ==
    IF HasNext(g)
    THEN /\ gen' = g
         /\ img' = FrameAt(g + 1)[1]
         /\ variables' = FrameAt(g + 1)[2]
         /\ hasImg' = TRUE
         /\ visible' = vis
    ELSE /\ gen' = g
         /\ visible' = FALSE
         /\ UNCHANGED <<img, variables, hasImg>>

\* update() with a slip: StopIteration is swallowed without hiding the stimulus.
updateStaysVisible(g, vis) ==
    IF HasNext(g)
    THEN /\ gen' = g + 1
         /\ img' = FrameAt(g + 1)[1]
         /\ variables' = FrameAt(g + 1)[2]
         /\ hasImg' = TRUE
         /\ visible' = vis
    ELSE /\ gen' = g
         /\ visible' = vis
         /\ UNCHANGED <<img, variables, hasImg>>

\* update() with the generator at g and self.visible = vis: take the next
\* frame and validate it, or go invisible on StopIteration.  The assignment of
\* line 53 precedes the assertions, so a frame that fails them stays in img
\* and variables.  (The zoom cache of line 59 belongs to VisualObject and is
\* read by none of the methods here; it is left out.)
update(g, vis) ==
    IF HasNext(g)
    THEN /\ gen' = g + 1
         /\ img' = FrameAt(g + 1)[1]
         /\ variables' = FrameAt(g + 1)[2]
         /\ hasImg' = TRUE
         /\ visible' = vis
    ELSE /\ gen' = g
         /\ visible' = FALSE
         /\ UNCHANGED <<img, variables, hasImg>>

StimInit ==
    /\ frameSeq \in SeqsUpTo(Frames, MaxFrames)
    /\ infinite \in (IF frameSeq = <<>> THEN {FALSE} ELSE BOOLEAN)
    /\ max_luminance \in Luminances
    /\ phase = "new"
    /\ gen = 0
    /\ hasImg = FALSE
    /\ img = <<0>>
    /\ variables = <<>>
    /\ visible = TRUE
    /\ wasVisible = TRUE
    /\ raised = "none"
    /\ ret = <<>>
    /\ lastOp = "none"
    /\ calls = 0
    /\ CpIdle /\ TcIdle /\ AdsIdle

\* VisualStimulus.__init__: VisualObject.__init__ (which may set visible), a
\* fresh generator, then update().  An exception leaves no object behind.
Construct ==
    /\ phase = "new"
    /\ \E v0 \in BOOLEAN : update(0, v0) /\ wasVisible' = v0
    /\ raised' = UpdateExc(0)
    /\ phase' = IF raised' = "none" THEN "live" ELSE "failed"
    /\ lastOp' = "init"
    /\ calls' = 0
    /\ UNCHANGED <<frameSeq, infinite, max_luminance, ret, cpVars, tcVars, adsVars>>

\* VisualStimulus.update
Update ==
    /\ phase = "live"
    /\ calls < MaxCalls
    /\ update(gen, visible)
    /\ wasVisible' = visible
    /\ raised' = UpdateExc(gen)
    /\ lastOp' = "update"
    /\ calls' = calls + 1
    /\ UNCHANGED <<frameSeq, infinite, max_luminance, phase, ret, cpVars, tcVars, adsVars>>

\* VisualStimulus.next_frame: update(), then return [self.img]; reading img
\* before any frame was assigned is an AttributeError.
NextFrame ==
    /\ phase = "live"
    /\ calls < MaxCalls
    /\ update(gen, visible)
    /\ wasVisible' = visible
    /\ raised' = IF UpdateExc(gen) # "none" THEN UpdateExc(gen)
                 ELSE IF ~hasImg' THEN "AttributeError" ELSE "none"
    /\ ret' = IF raised' = "none" THEN <<img'>> ELSE ret
    /\ lastOp' = "next_frame"
    /\ calls' = calls + 1
    /\ UNCHANGED <<frameSeq, infinite, max_luminance, phase, cpVars, tcVars, adsVars>>

\* reset() with a slip: the old generator is kept instead of a fresh one.
ResetKeepsGenerator ==
    /\ phase = "live"
    /\ update(gen, TRUE)
    /\ wasVisible' = visible
    /\ raised' = UpdateExc(gen)
    /\ lastOp' = "reset"
    /\ calls' = 0
    /\ UNCHANGED <<frameSeq, infinite, max_luminance, phase, ret, cpVars, tcVars, adsVars>>

\* VisualStimulus.reset: visible again, a fresh generator, then update().
Reset ==
    /\ phase = "live"
    /\ update(0, TRUE)
    /\ wasVisible' = visible
    /\ raised' = UpdateExc(0)
    /\ lastOp' = "reset"
    /\ calls' = 0
    /\ UNCHANGED <<frameSeq, infinite, max_luminance, phase, ret, cpVars, tcVars, adsVars>>

StimNext == Construct \/ Update \/ NextFrame \/ Reset

SpecStim == StimInit /\ [][StimNext]_vars

(***************************************************************************)
(* MozaikLiteParametrizeObject                                             *)
(***************************************************************************)
\* A node of a parameter tree.  kind "ParameterSet" and "dict" are the two
\* containers (items: key -> node); "type" is a class object, the leaf of a
\* declaration; "value" is an instance of class t, the leaf of a supplied tree.
TypeNode(t) == [kind |-> "type", t |-> t, items |-> <<>>]
ValueNode(t) == [kind |-> "value", t |-> t, items |-> <<>>]
PSNode(f) == [kind |-> "ParameterSet", t |-> "ParameterSet", items |-> f]
DictNode(f) == [kind |-> "dict", t |-> "dict", items |-> f]

ParamKeys == {"a", "b"}
RequiredTypes == {"int", "dict"}          \* classes a declaration may require
ValueClasses == {"int", "bool", "dict"}   \* classes of supplied leaf values

\* type(x) and the classes x is an instance of: bool derives from int,
\* ParameterSet derives from dict.
ClassOf(n) == IF n.kind = "value" THEN n.t
              ELSE IF n.kind = "type" THEN "type" ELSE n.kind
Supers(c) == IF c = "bool" THEN {"bool", "int"}
             ELSE IF c = "ParameterSet" THEN {"ParameterSet", "dict"}
             ELSE {c}
isinstance(n, c) == c \in Supers(ClassOf(n))

\* ParameterSet.as_dict(): the tree with every ParameterSet turned into a dict.
RECURSIVE as_dict(_)
as_dict(n) ==
    IF n.kind = "ParameterSet"
    THEN DictNode([k \in DOMAIN n.items |-> as_dict(n.items[k])])
    ELSE n

\* ParameterSet(d): the tree with every dict turned into a ParameterSet.
RECURSIVE ParameterSet(_)
ParameterSet(n) ==
    IF n.kind \in {"dict", "ParameterSet"}
    THEN PSNode([k \in DOMAIN n.items |-> ParameterSet(n.items[k])])
    ELSE n

\* old.update(new) with a slip: where both hold a section for a key, the two
\* sections are merged instead of the new one replacing the old.
RECURSIVE DictUpdateMerging(_, _)
DictUpdateMerging(old, new) ==
    DictNode([k \in DOMAIN old.items \cup DOMAIN new.items |->
                IF k \notin DOMAIN new.items THEN old.items[k]
                ELSE IF k \in DOMAIN old.items /\ old.items[k].kind = "dict"
                        /\ new.items[k].kind = "dict"
                     THEN DictUpdateMerging(old.items[k], new.items[k])
                     ELSE new.items[k]])

\* old.update(new): the entries of new replace those of old, key by key and whole.
DictUpdate(old, new) ==
    DictNode([k \in DOMAIN old.items \cup DOMAIN new.items |->
                IF k \in DOMAIN new.items THEN new.items[k] ELSE old.items[k]])

\* The MRO of the object's class: the classes of classChain, then
\* MozaikLiteParametrizeObject (required_parameters = ParameterSet({})), then
\* object, which has no such attribute.
BaseClass == [defines |-> TRUE, rp |-> PSNode(<<>>)]
ObjectClass == [defines |-> FALSE, rp |-> PSNode(<<>>)]
Mro(chain) == chain \o <<BaseClass, ObjectClass>>

\* hasattr(cls, 'required_parameters') and cls.required_parameters for the
\* i-th class of the MRO: its own attribute or the one it inherits from the
\* nearest class after it (single inheritance: its ancestors are the rest).
hasattr(mro, i) == \E j \in i..Len(mro) : mro[j].defines
getattr(mro, i) ==
    mro[CHOOSE j \in i..Len(mro) :
            mro[j].defines /\ \A h \in i..(j - 1) : ~mro[h].defines].rp

\* The collection with a slip: only the object's own class is asked.
new_param_dictOwnClass(chain) == as_dict(getattr(Mro(chain), 1))

\* Lines 103-108: new_param_dict after the classes i.. of the MRO.
RECURSIVE Collect(_, _, _)
Collect(mro, i, dict) ==
    IF i > Len(mro) THEN dict
    ELSE Collect(mro, i + 1,
                 IF hasattr(mro, i) THEN DictUpdate(dict, as_dict(getattr(mro, i)))
                 ELSE dict)

new_param_dict(chain) == Collect(Mro(chain), 1, DictNode(<<>>))

\* The outcome of a call: the exception raised ("none": returned) and, for
\* the KeyError of walk, the section its message names ('' at the top).
Outcome(e, sec) == [exc |-> e, section |-> sec]
Returned == Outcome("none", "")

\* walk(tP, P, section), visiting tP.items() in the order `order` lists the
\* keys (a dict's iteration order is fixed but arbitrary).
RECURSIVE walk(_, _, _, _)
RECURSIVE walkItems(_, _, _, _)
RECURSIVE walkItemsShallow(_, _, _, _)
walk(tP, P, section, order) ==
    IF DOMAIN tP.items # DOMAIN P.items
    THEN Outcome("KeyError", section)
    ELSE walkItems(tP, P, SelectSeq(order, LAMBDA k : k \in DOMAIN tP.items), order)

\* The loop of walk with a slip: a section is type-checked but not walked.
walkItemsShallow(tP, P, ks, order) ==
    IF ks = <<>> THEN Returned
    ELSE LET k == Head(ks)
             v == tP.items[k]
             r == IF v.kind = "ParameterSet"
                  THEN IF P.items[k].kind # "ParameterSet"
                       THEN Outcome("AssertionError", "")
                       ELSE Returned
                  ELSE IF isinstance(P.items[k], v.t)
                       THEN Returned
                       ELSE Outcome("AssertionError", "")
         IN  IF r # Returned THEN r ELSE walkItemsShallow(tP, P, Tail(ks), order)

walkItems(tP, P, ks, order) ==
    IF ks = <<>> THEN Returned
    ELSE LET k == Head(ks)
             v == tP.items[k]
             r == IF v.kind = "ParameterSet"
                  THEN IF P.items[k].kind # "ParameterSet"
                       THEN Outcome("AssertionError", "")
                       ELSE walk(v, P.items[k], k, order)
                  ELSE IF isinstance(P.items[k], v.t)
                       THEN Returned
                       ELSE Outcome("AssertionError", "")
         IN  IF r # Returned THEN r ELSE walkItems(tP, P, Tail(ks), order)

\* check_parameters with a slip: the handler catches every exception.
check_parametersCatchAll(chain, P, order) ==
    LET r == walk(ParameterSet(new_param_dict(chain)), P, "", order)
    IN  IF r.exc # "none" THEN Outcome("Exception", "") ELSE r

\* check_parameters(parameters): collect, walk, and wrap an AssertionError
\* into a generic Exception ("... Invalid parameters ...").
check_parameters(chain, P, order) ==
    LET r == walk(ParameterSet(new_param_dict(chain)), P, "", order)
    IN  IF r.exc = "AssertionError" THEN Outcome("Exception", "") ELSE r

\* ---- the inputs of the model ----
PartialFns(K, V) == UNION { [D -> V] : D \in SUBSET K }

RECURSIVE NodeCount(_)
RECURSIVE NodeCountIn(_, _)
NodeCount(n) == NodeCountIn(n, DOMAIN n.items)
NodeCountIn(n, D) ==
    IF D = {} THEN 0
    ELSE LET k == CHOOSE x \in D : TRUE
         IN  1 + NodeCount(n.items[k]) + NodeCountIn(n, D \ {k})

\* required_parameters declarations: ParameterSets of classes and of
\* sections of classes.
AllRequiredTrees ==
    LET leaves == { TypeNode(t) : t \in RequiredTypes }
        sections == { PSNode(f) : f \in PartialFns(ParamKeys, leaves) }
    IN  { PSNode(f) : f \in PartialFns(ParamKeys, leaves \cup sections) }

\* Supplied parameters: ParameterSets of values and of sections of values.
AllSuppliedTrees ==
    LET leaves == { ValueNode(t) : t \in ValueClasses }
        sections == { PSNode(f) : f \in PartialFns(ParamKeys, leaves) }
    IN  { PSNode(f) : f \in PartialFns(ParamKeys, leaves \cup sections) }

SuppliedTrees == { P \in AllSuppliedTrees : NodeCount(P) <= MaxSupplied }

ClassDecls(budget) ==
    { [defines |-> FALSE, rp |-> PSNode(<<>>)] } \cup
    { [defines |-> TRUE, rp |-> t] : t \in { u \in AllRequiredTrees : NodeCount(u) <= budget } }

\* The class chains whose classes and declared keys number at most budget.
RECURSIVE ChainsWithin(_)
ChainsWithin(budget) ==
    IF budget <= 0 THEN { <<>> }
    ELSE { <<>> } \cup
         UNION { { <<c>> \o rest : rest \in ChainsWithin(budget - 1 - NodeCount(c.rp)) }
                 : c \in ClassDecls(budget - 1) }

KeyOrders == { <<"a", "b">>, <<"b", "a">> }

CpInit ==
    /\ classChain \in ChainsWithin(MaxDeclared)
    /\ cpPhase = "new"
    /\ selfParameters = <<>>
    /\ parameters = <<>>
    /\ cpResult = Returned
    /\ StimIdle /\ TcIdle /\ AdsIdle

\* MozaikLiteParametrizeObject.__init__: check the parameters, then keep them.
NewObject ==
    /\ cpPhase = "new"
    /\ \E P \in SuppliedTrees, order \in KeyOrders :
          /\ parameters' = P
          /\ cpResult' = check_parameters(classChain, P, order)
          /\ IF cpResult' = Returned
             THEN cpPhase' = "live" /\ selfParameters' = P
             ELSE cpPhase' = "failed" /\ UNCHANGED selfParameters
    /\ UNCHANGED <<classChain, stimVars, tcVars, adsVars>>

CpNext == NewObject

SpecParams == CpInit /\ [][CpNext]_vars

\* The classes of a chain that define required_parameters with top-level key
\* k, and the keys that more than one of them declares.
Declaring(chain, k) ==
    { i \in 1..Len(chain) : chain[i].defines /\ k \in DOMAIN chain[i].rp.items }
SharedKeys(chain) == { k \in ParamKeys : Cardinality(Declaring(chain, k)) >= 2 }

\* Objects of classes whose MRO declares some top-level key more than once.
OverrideInit ==
    /\ classChain \in { c \in ChainsWithin(MaxOverride) : SharedKeys(c) # {} }
    /\ cpPhase = "new"
    /\ selfParameters = <<>>
    /\ parameters = <<>>
    /\ cpResult = Returned
    /\ StimIdle /\ TcIdle /\ AdsIdle

SpecOverride == OverrideInit /\ [][CpNext]_vars

(***************************************************************************)
(* AnalysisDataStructure and its subclasses: construction                  *)
(***************************************************************************)
\* The param.Parameter declarations of lines 54-56, 91, 170-171, 202-203,
\* 225 and 249 with their defaults: a param.String defaults to the empty
\* string, tags to the empty list.
ParamDefaults ==
    [identifier |-> "", analysis_algorithm |-> "", tags |-> <<>>,
     sheet_name |-> "", value_name |-> "", x_axis_name |-> "", y_axis_name |-> ""]

\* The keyword arguments kw extended by (or overridden with) name = value.
WithKeyword(kw, name, value) ==
    [k \in DOMAIN kw \cup {name} |-> IF k = name THEN value ELSE kw[k]]

\* AnalysisDataStructure.__init__(**params): Parameterized.__init__ sets every
\* parameter named in params and leaves the others at their defaults.
AnalysisDataStructure(kw) ==
    [k \in DOMAIN ParamDefaults |-> IF k \in DOMAIN kw THEN kw[k] ELSE ParamDefaults[k]]

\* TuningCurve.__init__(values, stimuli_ids, parameter_index, y_axis_name,
\* y_axis_units, **params)
TuningCurve(vs, ids, idx, yname, yunits, kw) ==
    [params |-> AnalysisDataStructure(WithKeyword(kw, "identifier", "TuningCurve")),
     attrs |-> [values |-> vs, stimuli_ids |-> ids, parameter_index |-> idx,
                y_axis_name |-> yname, y_axis_units |-> yunits]]

\* CyclicTuningCurve.__init__(period, *args, **params), up to the range check.
CyclicTuningCurve(per, vs, ids, idx, yname, yunits, kw) ==
    LET tc == TuningCurve(vs, ids, idx, yname, yunits, kw)
    IN  [params |-> [tc.params EXCEPT !.identifier = "CyclicTuningCurve"],
         attrs |-> [values |-> vs, stimuli_ids |-> ids, parameter_index |-> idx,
                    y_axis_name |-> yname, y_axis_units |-> yunits, period |-> per]]

\* PerNeuronValue.__init__(values, value_units, tags, period=None, **params):
\* the tags argument is taken by name and not handed on.
PerNeuronValue(vs, units, tags, per, kw) ==
    [params |-> AnalysisDataStructure(WithKeyword(kw, "identifier", "PerNeuronValue")),
     attrs |-> [value_units |-> units, period |-> per, values |-> vs]]

\* AnalysisDataStructure1D.__init__(x_axis_units, y_axis_units, **params)
AnalysisDataStructure1D(xunits, yunits, kw) ==
    [params |-> AnalysisDataStructure(kw),
     attrs |-> [x_axis_units |-> xunits, y_axis_units |-> yunits]]

\* AnalogSignalList.__init__(asl, indexes, x_axis_units, y_axis_units, **params)
AnalogSignalList(asl, indexes, xunits, yunits, kw) ==
    LET o == AnalysisDataStructure1D(xunits, yunits,
                                     WithKeyword(kw, "identifier", "AnalogSignalList"))
    IN  [params |-> o.params,
         attrs |-> [x_axis_units |-> xunits, y_axis_units |-> yunits,
                    asl |-> asl, indexes |-> indexes]]

\* ConductanceSignalList.__init__(e_con, i_con, indexes, **params), after its
\* assertion; a signal is held as [units, sampling_rate_units].
ConductanceSignalList(e_con, i_con, indexes, kw) ==
    LET o == AnalysisDataStructure1D(
                 e_con[1].sampling_rate_units, e_con[1].units,
                 WithKeyword(WithKeyword(WithKeyword(kw, "x_axis_name", "time"),
                                         "y_axis_name", "conductance"),
                             "identifier", "ConductanceSignalList"))
    IN  [params |-> o.params,
         attrs |-> [x_axis_units |-> e_con[1].sampling_rate_units,
                    y_axis_units |-> e_con[1].units,
                    e_con |-> e_con, i_con |-> i_con, indexes |-> indexes]]

(***************************************************************************)
(* TuningCurve and CyclicTuningCurve                                       *)
(***************************************************************************)
\* A stimulus id string "Name(p0, p1, ...)" is held as its fields: the name,
\* then the parameters as the strings written in the id.
\* parse_stimuls_id(s): the id object, with its name and its parameter list.
parse_stimuls_id(s) == [name |-> Head(s), parameters |-> Tail(s)]

\* str(s) of an id object: the id string of its name and parameters.
StimulusIdStr(sid) == <<sid.name>> \o sid.parameters

\* float(string): the number a parameter string denotes.
float(tok) ==
    CASE tok = "-1" -> -1
      [] tok = "0" -> 0
      [] tok = "0.0" -> 0
      [] tok = "1" -> 1
      [] tok = "1.0" -> 1

TunedStrings == {"-1", "0", "1", "1.0"}
OtherStrings == {"0", "0.0"}
StimulusIds == { <<"Grating", p0, p1>> : p0 \in TunedStrings, p1 \in OtherStrings }
ValueRows == { <<0>>, <<1>> }
Periods == {1, 2}

\* numpy.array(a): the rows of the list a as one array.
NumpyArray(a) == [ndarray |-> a]

\* The loop of to_dictonary_of_tc_parametrization with a slip: a further pair
\* of a group replaces the group instead of joining it.
GroupLoopOverwrites(vs, ids, idx, i, dict) ==
    LET sid == parse_stimuls_id(ids[i])
        val == float(sid.parameters[idx + 1])
        key == StimulusIdStr([sid EXCEPT !.parameters[idx + 1] = "x"])
    IN  [k \in DOMAIN dict \cup {key} |->
            IF k = key THEN << <<vs[i]>>, <<val>> >> ELSE dict[k]]

\* One round of the loop of lines 113-123, for the i-th pair of the zip.
GroupLoop(vs, ids, idx, i, dict) ==
    LET sid == parse_stimuls_id(ids[i])
        val == float(sid.parameters[idx + 1])
        key == StimulusIdStr([sid EXCEPT !.parameters[idx + 1] = "x"])
    IN  [k \in DOMAIN dict \cup {key} |->
            IF k = key
            THEN IF key \in DOMAIN dict
                 THEN << Append(dict[key][1], vs[i]), Append(dict[key][2], val) >>
                 ELSE << <<vs[i]>>, <<val>> >>
            ELSE dict[k]]

\* zip(values, stimuli_ids) stops with the shorter list.
ZipLen(vs, ids) == IF Len(vs) < Len(ids) THEN Len(vs) ELSE Len(ids)

RECURSIVE GroupAll(_, _, _, _, _)
GroupAll(vs, ids, idx, i, dict) ==
    IF i > ZipLen(vs, ids) THEN dict
    ELSE GroupAll(vs, ids, idx, i + 1, GroupLoop(vs, ids, idx, i, dict))

\* to_dictonary_of_tc_parametrization(): group, then turn each group's
\* levels into an array (lines 125-127).
to_dictonary_of_tc_parametrization(vs, ids, idx) ==
    LET grouped == GroupAll(vs, ids, idx, 1, <<>>)
    IN  [k \in DOMAIN grouped |-> << NumpyArray(grouped[k][1]), grouped[k][2] >>]

\* The range test of CyclicTuningCurve.__init__ with a slip: the period
\* itself is let through.
OutOfPeriodClosed(v, per) == v < 0 \/ v > per

\* Line 146: v lies outside <0, period).
OutOfPeriod(v, per) == v < 0 \/ v >= per

\* The loop of lines 143-147: whether some stimulus id makes it raise.
CyclicCheckRaises(ids, idx, per) ==
    \E i \in 1..Len(ids) :
        OutOfPeriod(float(parse_stimuls_id(ids[i]).parameters[idx + 1]), per)

TcInit ==
    /\ values \in SeqsUpTo(ValueRows, MaxStimuli)
    /\ stimuli_ids \in SeqsUpTo(StimulusIds, MaxStimuli)
    /\ parameter_index \in {0, 1}
    /\ tcPhase = "new"
    /\ identifier = ""
    /\ period = 0
    /\ d = <<>>
    /\ tcRaised = "none"
    /\ tcOp = "none"
    /\ StimIdle /\ CpIdle /\ AdsIdle

\* TuningCurve.__init__
NewTuningCurve ==
    /\ tcPhase = "new"
    /\ tcPhase' = "live"
    /\ identifier' = TuningCurve(values, stimuli_ids, parameter_index,
                                 "rate", "Hz", <<>>).params.identifier
    /\ tcRaised' = "none"
    /\ tcOp' = "TuningCurve"
    /\ UNCHANGED <<values, stimuli_ids, parameter_index, period, d, stimVars, cpVars, adsVars>>

\* CyclicTuningCurve.__init__: a TuningCurve, renamed, whose tuned parameter
\* values are then checked against the period.
NewCyclicTuningCurve ==
    /\ tcPhase = "new"
    /\ \E per \in Periods :
          /\ period' = per
          /\ identifier' = CyclicTuningCurve(per, values, stimuli_ids, parameter_index,
                                             "rate", "Hz", <<>>).params.identifier
          /\ IF CyclicCheckRaises(stimuli_ids, parameter_index, per)
             THEN tcRaised' = "ValueError" /\ tcPhase' = "failed"
             ELSE tcRaised' = "none" /\ tcPhase' = "live"
    /\ tcOp' = "CyclicTuningCurve"
    /\ UNCHANGED <<values, stimuli_ids, parameter_index, d, stimVars, cpVars, adsVars>>

\* TuningCurve.to_dictonary_of_tc_parametrization
ToDictionary ==
    /\ tcPhase = "live"
    /\ d' = to_dictonary_of_tc_parametrization(values, stimuli_ids, parameter_index)
    /\ tcRaised' = "none"
    /\ tcOp' = "to_dictonary_of_tc_parametrization"
    /\ UNCHANGED <<values, stimuli_ids, parameter_index, tcPhase, identifier,
                   period, stimVars, cpVars, adsVars>>

TcNext == NewTuningCurve \/ NewCyclicTuningCurve \/ ToDictionary

SpecTC == TcInit /\ [][TcNext]_vars

(***************************************************************************)
(* The constructors of the analysis data structures, called with tags      *)
(***************************************************************************)
TagStrings == {"t1", "t2"}
TagLists == SeqsUpTo(TagStrings, MaxTags)

\* The keyword arguments (**params) of a constructor call: any of
\* analysis_algorithm, sheet_name and tags, each with the value given for it.
Keywords(givenNames, tags) ==
    [k \in givenNames |->
        IF k = "tags" THEN tags
        ELSE IF k = "analysis_algorithm" THEN "Analysis" ELSE "V1"]

OtherKeywordSets == SUBSET {"analysis_algorithm", "sheet_name"}
Units == {"nS", "uS"}
Signal(u) == [units |-> u, sampling_rate_units |-> "Hz"]

AdsInit ==
    /\ adsCall = NoCall
    /\ ads = NoObject
    /\ adsRaised = "none"
    /\ StimIdle /\ CpIdle /\ TcIdle

Call(cls, given, tags, kw) ==
    [cls |-> cls, tagsGiven |-> given, tags |-> tags, params |-> kw]

\* TuningCurve(..., **params), with or without tags among the keywords.
CreateTuningCurve ==
    /\ \E names \in SUBSET {"tags", "analysis_algorithm", "sheet_name"}, tags \in TagLists :
          /\ ("tags" \in names \/ tags = <<>>)
          /\ adsCall' = Call("TuningCurve", "tags" \in names, tags, Keywords(names, tags))
          /\ ads' = TuningCurve(<< <<0>> >>, << <<"Grating", "0", "0">> >>, 0,
                                "rate", "Hz", Keywords(names, tags))
          /\ adsRaised' = "none"
    /\ UNCHANGED <<stimVars, cpVars, tcVars>>

\* CyclicTuningCurve(period, ..., **params); the range check may refuse it.
CreateCyclicTuningCurve ==
    /\ \E names \in SUBSET {"tags", "analysis_algorithm", "sheet_name"}, tags \in TagLists,
          per \in Periods, tuned \in TunedStrings :
          /\ ("tags" \in names \/ tags = <<>>)
          /\ adsCall' = Call("CyclicTuningCurve", "tags" \in names, tags,
                             Keywords(names, tags))
          /\ IF CyclicCheckRaises(<< <<"Grating", tuned, "0">> >>, 0, per)
             THEN /\ ads' = NoObject
                  /\ adsRaised' = "ValueError"
             ELSE /\ ads' = CyclicTuningCurve(per, << <<0>> >>,
                                              << <<"Grating", tuned, "0">> >>, 0,
                                              "rate", "Hz", Keywords(names, tags))
                  /\ adsRaised' = "none"
    /\ UNCHANGED <<stimVars, cpVars, tcVars>>

\* PerNeuronValue(values, value_units, tags, **params): tags is an argument
\* of its own here.
CreatePerNeuronValue ==
    /\ \E names \in OtherKeywordSets, tags \in TagLists :
          /\ adsCall' = Call("PerNeuronValue", TRUE, tags, Keywords(names, tags))
          /\ ads' = PerNeuronValue(<<0>>, "Hz", tags, 0, Keywords(names, tags))
          /\ adsRaised' = "none"
    /\ UNCHANGED <<stimVars, cpVars, tcVars>>

\* AnalogSignalList(asl, indexes, x_axis_units, y_axis_units, **params)
CreateAnalogSignalList ==
    /\ \E names \in SUBSET {"tags", "analysis_algorithm", "sheet_name"}, tags \in TagLists :
          /\ ("tags" \in names \/ tags = <<>>)
          /\ adsCall' = Call("AnalogSignalList", "tags" \in names, tags,
                             Keywords(names, tags))
          /\ ads' = AnalogSignalList(<<Signal("mV")>>, <<0>>, "ms", "mV",
                                     Keywords(names, tags))
          /\ adsRaised' = "none"
    /\ UNCHANGED <<stimVars, cpVars, tcVars>>

\* ConductanceSignalList(e_con, i_con, indexes, **params): the two lists must
\* come in the same units (line 252), or nothing is built.
CreateConductanceSignalList ==
    /\ \E names \in SUBSET {"tags", "analysis_algorithm", "sheet_name"}, tags \in TagLists,
          eu \in Units, iu \in Units :
          /\ ("tags" \in names \/ tags = <<>>)
          /\ adsCall' = Call("ConductanceSignalList", "tags" \in names, tags,
                             Keywords(names, tags))
          /\ IF eu = iu
             THEN /\ ads' = ConductanceSignalList(<<Signal(eu)>>, <<Signal(iu)>>, <<0>>,
                                                  Keywords(names, tags))
                  /\ adsRaised' = "none"
             ELSE /\ ads' = NoObject
                  /\ adsRaised' = "AssertionError"
    /\ UNCHANGED <<stimVars, cpVars, tcVars>>

AdsNext ==
    \/ CreateTuningCurve
    \/ CreateCyclicTuningCurve
    \/ CreatePerNeuronValue
    \/ CreateAnalogSignalList
    \/ CreateConductanceSignalList

SpecADS == AdsInit /\ [][AdsNext]_vars

(***************************************************************************)
(* Claims about VisualStimulus (checked under SpecStim)                    *)
(***************************************************************************)
\* C1: whenever img is set on a constructed stimulus it lies in the luminance
\* range: (img.min() >= 0 or img.min() == TRANSPARENT) and
\* img.max() <= max_luminance; an out-of-range frame is never the current one.
C1_CurrentFrameInRange ==
    (phase = "live" /\ hasImg) => InRange(img, max_luminance)

\* C2: after reset() on a stimulus whose frames() yields at least one frame,
\* reset() has returned, the stimulus is visible and (img, variables) is the
\* first element of a fresh frames() sequence, whatever preceded it.
C2_ResetRestarts ==
    (phase = "live" /\ lastOp = "reset" /\ Len(frameSeq) >= 1) =>
        /\ raised = "none"
        /\ visible
        /\ hasImg
        /\ <<img, variables>> = frameSeq[1]
        /\ gen = 1

\* C2's case: reset() brought an exhausted, invisible stimulus of two
\* different frames back to its first frame.
C2_Witness ==
    /\ phase = "live" /\ lastOp = "reset" /\ ~infinite
    /\ Len(frameSeq) = 2 /\ frameSeq[1] # frameSeq[2]
    /\ ~wasVisible /\ visible
    /\ ret = <<frameSeq[2][1]>>
    /\ <<img, variables>> = frameSeq[1]

\* C7: once update()/next_frame() has been called at least as often as a
\* finite, non-empty frames() has frames (so the call met StopIteration), the
\* call did not raise, the stimulus is invisible and img and variables are
\* still the last frame yielded; this lasts until reset().
C7_ExhaustionAbsorbing ==
    (/\ phase = "live" /\ ~infinite /\ Len(frameSeq) >= 1
     /\ lastOp \in {"update", "next_frame"} /\ calls >= Len(frameSeq)) =>
        /\ raised = "none"
        /\ ~visible
        /\ hasImg
        /\ <<img, variables>> = frameSeq[Len(frameSeq)]
        /\ gen = Len(frameSeq)

\* C7's case: a second call after exhaustion of a two-frame sequence that was
\* visible before it ran out.
C7_Witness ==
    /\ phase = "live" /\ ~infinite /\ Len(frameSeq) = 2
    /\ frameSeq[1] # frameSeq[2]
    /\ lastOp = "next_frame" /\ calls = 3
    /\ ~visible /\ ~wasVisible
    /\ <<img, variables>> = frameSeq[2]

\* C8: after __init__ or reset() and k = calls further update()/next_frame()
\* calls on a sequence of at least k+1 frames, exactly k+1 elements were
\* taken from frames() and (img, variables) is element k+1; when that frame
\* is valid the call returned, and next_frame() returned [img].
C8_LazyInOrder ==
    (phase = "live" /\ (infinite \/ calls + 1 <= Len(frameSeq))) =>
        /\ gen = calls + 1
        /\ hasImg
        /\ <<img, variables>> = FrameAt(calls + 1)
        /\ InRange(img, max_luminance) =>
               /\ raised = "none"
               /\ lastOp = "next_frame" => ret = <<img>>

\* C8's case: the second next_frame() on three pairwise different valid
\* frames returned the third.
C8_Witness ==
    /\ phase = "live" /\ ~infinite /\ Len(frameSeq) = 3
    /\ frameSeq[1] # frameSeq[2] /\ frameSeq[2] # frameSeq[3]
    /\ frameSeq[1] # frameSeq[3]
    /\ lastOp = "next_frame" /\ calls = 2 /\ raised = "none"
    /\ ret = <<frameSeq[3][1]>>

(***************************************************************************)
(* Claims about check_parameters (checked under SpecParams)                *)
(***************************************************************************)
\* The required tree of the object: what its classes declare, collected.
RequiredTree == ParameterSet(new_param_dict(classChain))

\* The supplied tree P matches the required tree tP at every nesting level.
RECURSIVE Matches(_, _)
Matches(tP, P) ==
    /\ DOMAIN tP.items = DOMAIN P.items
    /\ \A k \in DOMAIN tP.items :
          IF tP.items[k].kind = "ParameterSet"
          THEN P.items[k].kind = "ParameterSet" /\ Matches(tP.items[k], P.items[k])
          ELSE isinstance(P.items[k], tP.items[k].t)

\* C3: check_parameters(parameters) returns without raising if and only if
\* the supplied tree matches the required tree at every nesting level (equal
\* key sets, a matching ParameterSet where one is required, an instance of
\* the required type elsewhere); in every other case it raises.
C3_ReturnsIffMatches ==
    cpPhase \in {"live", "failed"} =>
        ((cpResult.exc = "none") <=> Matches(RequiredTree, parameters))

\* C3's case: accepted parameters with a nested section, where a bool was
\* supplied for a required int.
C3_Witness ==
    /\ cpPhase = "live" /\ cpResult = Returned /\ selfParameters = parameters
    /\ \E k \in DOMAIN parameters.items :
          /\ parameters.items[k].kind = "ParameterSet"
          /\ \E j \in DOMAIN parameters.items[k].items :
                /\ parameters.items[k].items[j] = ValueNode("bool")
                /\ RequiredTree.items[k].items[j] = TypeNode("int")

\* A level the walk can reach at which the key sets differ.
RECURSIVE HasKeyMismatch(_, _)
HasKeyMismatch(tP, P) ==
    \/ DOMAIN tP.items # DOMAIN P.items
    \/ /\ DOMAIN tP.items = DOMAIN P.items
       /\ \E k \in DOMAIN tP.items :
             /\ tP.items[k].kind = "ParameterSet"
             /\ P.items[k].kind = "ParameterSet"
             /\ HasKeyMismatch(tP.items[k], P.items[k])

\* A value the walk can reach that has the wrong type.
RECURSIVE HasTypeMismatch(_, _)
HasTypeMismatch(tP, P) ==
    /\ DOMAIN tP.items = DOMAIN P.items
    /\ \E k \in DOMAIN tP.items :
          IF tP.items[k].kind = "ParameterSet"
          THEN \/ P.items[k].kind # "ParameterSet"
               \/ HasTypeMismatch(tP.items[k], P.items[k])
          ELSE ~isinstance(P.items[k], tP.items[k].t)

\* C9: the call ends with KeyError only for differing key sets at a level the
\* walk compares, with the generic Exception only for a value of the wrong
\* type, and never with a bare AssertionError; differing key sets at the top
\* level always give KeyError (unwrapped, section ''), a mismatch of one kind
\* alone always gives that kind's error.
C9_DistinctErrors ==
    cpPhase \in {"live", "failed"} =>
        LET keys == HasKeyMismatch(RequiredTree, parameters)
            types == HasTypeMismatch(RequiredTree, parameters)
        IN  /\ cpResult.exc \in {"none", "KeyError", "Exception"}
            /\ cpResult.exc = "KeyError" => keys
            /\ cpResult.exc = "Exception" => types
            /\ (keys /\ ~types) => cpResult.exc = "KeyError"
            /\ (types /\ ~keys) => cpResult.exc = "Exception"
            /\ DOMAIN RequiredTree.items # DOMAIN parameters.items
                  => cpResult = Outcome("KeyError", "")

\* C9's case: a nested section with the wrong keys gave KeyError naming the
\* section, although another value had the wrong type too.
C9_Witness ==
    /\ cpPhase = "failed"
    /\ cpResult.exc = "KeyError" /\ cpResult.section \in ParamKeys
    /\ HasTypeMismatch(RequiredTree, parameters)

\* The top-level keys declared by the classes of the chain that define
\* required_parameters.
DeclaredKeys ==
    UNION { DOMAIN classChain[i].rp.items :
              i \in { j \in 1..Len(classChain) : classChain[j].defines } }

\* C10: the top-level key set check_parameters demands is exactly the union
\* of the top-level keys of required_parameters over the classes of the MRO
\* that define it: the top-level KeyError is raised if and only if the
\* supplied top-level keys are not that union.
C10_KeysAreUnionOverMro ==
    cpPhase \in {"live", "failed"} =>
        ((cpResult = Outcome("KeyError", ""))
            <=> (DOMAIN parameters.items # DeclaredKeys))

\* C10's case: a subclass and its parent declare different keys, and the
\* object was built with both.
C10_Witness ==
    /\ cpPhase = "live"
    /\ Len(classChain) = 2
    /\ classChain[1].defines /\ classChain[2].defines
    /\ DOMAIN classChain[1].rp.items = {"a"}
    /\ DOMAIN classChain[2].rp.items = {"b"}
    /\ DOMAIN selfParameters.items = {"a", "b"}

(***************************************************************************)
(* Claims about the tuning curves (checked under SpecTC)                   *)
(***************************************************************************)
\* The pairs zip(values, stimuli_ids) holds, by position.
Pairs == 1..(IF Len(values) < Len(stimuli_ids) THEN Len(values) ELSE Len(stimuli_ids))

\* The i-th stimulus id with the parameter at parameter_index replaced by 'x',
\* and the value that parameter had.
ReKeyed(i) == [stimuli_ids[i] EXCEPT ![parameter_index + 2] = "x"]
TunedValue(i) == float(stimuli_ids[i][parameter_index + 2])

\* The pairs of group key, and the j-th of them in input order.
GroupOf(key) == { i \in Pairs : ReKeyed(i) = key }
NthOf(key, j) ==
    CHOOSE i \in GroupOf(key) : Cardinality({ h \in GroupOf(key) : h <= i }) = j

\* C4: to_dictonary_of_tc_parametrization() partitions the input pairs by
\* re-keyed stimulus id: the keys are exactly the re-keyed ids, each group's
\* levels and xaxis are as long as the group has pairs, and position j of
\* both holds the value and the tuned parameter value of the group's j-th
\* pair in input order (so every pair appears exactly once).
C4_GroupsPartitionPairs ==
    (tcPhase = "live" /\ tcOp = "to_dictonary_of_tc_parametrization") =>
        /\ DOMAIN d = { ReKeyed(i) : i \in Pairs }
        /\ \A key \in DOMAIN d :
              LET levels == d[key][1].ndarray
                  xaxis == d[key][2]
              IN  /\ Len(levels) = Cardinality(GroupOf(key))
                  /\ Len(xaxis) = Len(levels)
                  /\ \A j \in 1..Len(levels) :
                        /\ levels[j] = values[NthOf(key, j)]
                        /\ xaxis[j] = TunedValue(NthOf(key, j))

\* C4's case: three pairs in two groups, the group of two made of the first
\* and the last pair, with different values.
C4_Witness ==
    /\ tcPhase = "live" /\ tcOp = "to_dictonary_of_tc_parametrization"
    /\ Len(values) = 3 /\ Len(stimuli_ids) = 3
    /\ Cardinality(DOMAIN d) = 2
    /\ ReKeyed(1) = ReKeyed(3) /\ ReKeyed(1) # ReKeyed(2)
    /\ values[1] # values[3] /\ TunedValue(1) # TunedValue(3)
    /\ d[ReKeyed(1)] = << [ndarray |-> <<values[1], values[3]>>],
                          <<TunedValue(1), TunedValue(3)>> >>

\* C5: CyclicTuningCurve(period, ...) raises ValueError if and only if some
\* stimulus id has its parameter at parameter_index with value v < 0 or
\* v >= period; otherwise it succeeds with identifier 'CyclicTuningCurve'.
C5_CyclicRange ==
    tcOp = "CyclicTuningCurve" =>
        LET outside == \E i \in 1..Len(stimuli_ids) :
                          LET v == float(stimuli_ids[i][parameter_index + 2])
                          IN  v < 0 \/ v >= period
        IN  /\ (tcRaised = "ValueError") <=> outside
            /\ (tcPhase = "failed") <=> outside
            /\ ~outside => (tcPhase = "live" /\ identifier = "CyclicTuningCurve")

\* C5's case: construction refused because one tuned value equals the period,
\* all others lying inside the range.
C5_Witness ==
    /\ tcOp = "CyclicTuningCurve" /\ tcRaised = "ValueError" /\ tcPhase = "failed"
    /\ Len(stimuli_ids) = 3
    /\ \E i \in 1..3 :
          /\ float(stimuli_ids[i][parameter_index + 2]) = period
          /\ \A j \in (1..3) \ {i} :
                /\ float(stimuli_ids[j][parameter_index + 2]) >= 0
                /\ float(stimuli_ids[j][parameter_index + 2]) < period

(***************************************************************************)
(* Claims about the tags of the analysis data structures (under SpecADS)   *)
(***************************************************************************)
\* C6: for each analysis data structure class, the tags passed to the
\* constructor are the value of the constructed object's tags parameter.
C6_TagsKept ==
    (adsCall.cls # "none" /\ adsCall.tagsGiven /\ adsRaised = "none") =>
        ads.params.tags = adsCall.tags

(***************************************************************************)
(* Claims about keys declared by several classes (under SpecOverride)      *)
(***************************************************************************)
\* The class latest in the MRO among those that declare top-level key k.
LastDeclaring(k) ==
    CHOOSE i \in Declaring(classChain, k) : \A j \in Declaring(classChain, k) : j <= i

\* The tree in which every declared top-level key has the whole entry of the
\* last class of the MRO that declares it.
LastWinsTree ==
    PSNode([k \in DeclaredKeys |-> classChain[LastDeclaring(k)].rp.items[k]])

\* C11: when a top-level key is declared by more than one class of the MRO,
\* check_parameters enforces the declaration of the class that comes last in
\* the MRO, whole: the call returns if and only if the supplied tree matches
\* the tree of the last declarations, with no merging of nested sections.
C11_LastDeclarationWins ==
    (cpPhase \in {"live", "failed"} /\ SharedKeys(classChain) # {}) =>
        ((cpResult.exc = "none") <=> Matches(LastWinsTree, parameters))

\* C11's case: the subclass and its ancestor declare the same key as sections
\* with different keys, and an object was built with the ancestor's section,
\* which lacks a key of the subclass's.
C11_Witness ==
    /\ cpPhase = "live" /\ Len(classChain) = 2
    /\ \E k \in SharedKeys(classChain) :
          LET own == classChain[1].rp.items[k]
              far == classChain[2].rp.items[k]
          IN  /\ own.kind = "ParameterSet" /\ far.kind = "ParameterSet"
              /\ DOMAIN own.items # {}
              /\ ~(DOMAIN own.items \subseteq DOMAIN far.items)
              /\ selfParameters.items[k].kind = "ParameterSet"
              /\ DOMAIN selfParameters.items[k].items = DOMAIN far.items

====
